---- MODULE Spec2Model ----
(***************************************************************************)
(* Scope resolution and plan filtering of complyctl (package plan):        *)
(*   - NewAssessmentScopeFromCDsWithTitles / NewAssessmentScopeFromCDs     *)
(*     build an AssessmentScope from component definitions;                *)
(*   - AssessmentScope.ApplyScope narrows an OSCAL assessment plan to the  *)
(*     scope, in place.                                                    *)
(*                                                                         *)
(* Go pointers and nil-able slices are modelled as sequences of length 0   *)
(* (nil) or 1 (the value pointed to), so that an absent collection and a   *)
(* present-but-empty one are different values.  A Go map used as a set is  *)
(* a TLA+ set; ranging over it yields its members in any order.            *)
(***************************************************************************)
EXTENDS Integers, Sequences, FiniteSets, TLC

VARIABLES
    scope,      \* the AssessmentScope handed to ApplyScope
    plan,       \* the assessment plan, mutated in place by ApplyScope
    prev,       \* history: the plan as it was before the latest ApplyScope call
    applies,    \* history: number of ApplyScope calls made on the plan
    panicAt,    \* 0, or the index of the activity at which the latest call panicked
    frameworkId,\* the framework id handed to the scope constructors
    deps,       \* appDir, validator and profileLoader handed to them (nil or not)
    cds,        \* the variadic component definitions: a nil or non-nil slice
    built,      \* nil, or the (AssessmentScope, error) the constructor returned
    titleCalls, \* history: the control ids getControlTitle was called with, in order
    allKeys     \* history: the keys All() returned to the constructor

applyVars == <<scope, plan, prev, applies, panicAt>>

buildVars == <<frameworkId, deps, cds, built, titleCalls, allKeys>>

vars == <<scope, plan, prev, applies, panicAt, frameworkId, deps, cds, built, titleCalls,
          allKeys>>

-----------------------------------------------------------------------------
(* Bounds of the model *)

MaxApplies == 2
MaxScopeLen == 2
MaxIncludeLen == 2
MaxSelections == 2
MaxRootSelections == 1
MaxDocs == 2
MaxImplementations == 2
MaxRequirements == 2

-----------------------------------------------------------------------------
(* Pointers, slices *)

Nil == <<>>
Ptr(x) == <<x>>
Deref(p) == p[1]
IsNil(p) == Len(p) = 0

Range(s) == {s[i] : i \in 1..Len(s)}

SeqsUpTo(S, n) == UNION {[1..k -> S] : k \in 0..n}

-----------------------------------------------------------------------------
(* includeControlsSet: map[string]struct{} *)

Add(i, controlID) == i \cup {controlID}

Added(i, controlTitle) == i \cup {controlTitle}

Has(i, controlID) == controlID \in i

\* The orders in which a range over the map can yield its keys.
MapRange(i) ==
    {s \in [1..Cardinality(i) -> i] : \A x, y \in 1..Cardinality(i) : x # y => s[x] # s[y]}

\* Faulty variant: the key slice is made with the map's length, not only its capacity.
AllAfterZeroValues(i) == {[k \in 1..Cardinality(i) |-> ""] \o s : s \in MapRange(i)}

All(i) == MapRange(i)

-----------------------------------------------------------------------------
(* Building the scope *)

TrestleNameSpace == "https://oscal-compass.github.io/compliance-trestle/schemas/oscal"

FrameworkProp == "Framework_Short_Name"

ControlEntry(id, title) == [ControlID |-> id, ControlTitle |-> title, Rules |-> <<"*">>]

NewAssessmentScope(frameworkID) == [FrameworkID |-> frameworkID, IncludeControls |-> <<>>]

\* AssessmentScope{}
ZeroAssessmentScope == [FrameworkID |-> "", IncludeControls |-> <<>>]

\* extensions.GetTrestleProp: the first property of that name in the trestle namespace.
GetTrestleProp(name, props) ==
    LET hits == SelectSeq(props, LAMBDA p : p.Name = name /\ p.Ns = TrestleNameSpace)
    IN  IF hits = <<>> THEN [found |-> FALSE, Value |-> ""]
        ELSE [found |-> TRUE, Value |-> hits[1].Value]

RECURSIVE Flatten(_)
Flatten(ss) == IF ss = <<>> THEN <<>> ELSE Head(ss) \o Flatten(Tail(ss))

\* The controls getControlTitle goes through, in order: those of the groups
\* of the catalogs that the profile's imports load.
catalogControls(profile, profileLoader) ==
    LET controlsOfGroup(group) ==
            IF IsNil(group.Controls) THEN <<>> ELSE Deref(group.Controls)
        controlsOfImport(imp) ==
            LET catalog == profileLoader.LoadCatalogSource[imp.Href]
            IN  IF IsNil(catalog) \/ IsNil(Deref(catalog).Groups) THEN <<>>
                ELSE Flatten([g \in 1..Len(Deref(Deref(catalog).Groups)) |->
                                 controlsOfGroup(Deref(Deref(catalog).Groups)[g])])
    IN  Flatten([k \in 1..Len(Deref(profile.Imports)) |->
                    controlsOfImport(Deref(profile.Imports)[k])])

\* getControlTitle: [title, err].
getControlTitle(controlID, controlImplementation, profileLoader) ==
    LET profile == profileLoader.LoadProfile[controlImplementation.Source]
    IN  IF IsNil(profile) THEN [title |-> "", err |-> Ptr("failed to load profile")]
        ELSE IF IsNil(Deref(profile).Imports)
        THEN [title |-> "", err |-> Ptr("profile has no imports")]
        ELSE LET hits == SelectSeq(catalogControls(Deref(profile), profileLoader),
                                   LAMBDA control : control.ID = controlID /\ control.Title # "")
             IN  IF hits = <<>> THEN [title |-> "", err |-> Ptr("title not found in catalog")]
                 ELSE [title |-> hits[1].Title, err |-> Nil]

\* appDir != nil && validator != nil && profileLoader != nil
haveDependencies(d) == d.appDir /\ d.validator /\ ~IsNil(d.profileLoader)

\* Faulty variant: the title getControlTitle returned is stored even when it
\* returned an error.
RECURSIVE requirementsLoopNoFallback(_, _, _, _)
requirementsLoopNoFallback(st, ci, k, d) ==
    IF k > Len(Deref(ci.ImplementedRequirements)) THEN st
    ELSE LET id == Deref(ci.ImplementedRequirements)[k].ControlId
         IN  IF id = "" THEN requirementsLoopNoFallback(st, ci, k + 1, d)
             ELSE LET added == [st EXCEPT !.includeControls = Add(@, id)]
                      titled ==
                          IF haveDependencies(d)
                          THEN IF id \in DOMAIN added.controlTitles THEN added
                               ELSE LET r == getControlTitle(id, ci, Deref(d.profileLoader))
                                    IN  [added EXCEPT
                                           !.controlTitles = (id :> r.title) @@ @,
                                           !.calls = Append(@, id)]
                          ELSE [added EXCEPT !.controlTitles = (id :> id) @@ @]
                  IN  requirementsLoopNoFallback(titled, ci, k + 1, d)

\* Faulty variant: getControlTitle is called without looking the id up in
\* controlTitles first.
RECURSIVE requirementsLoopNoLookup(_, _, _, _)
requirementsLoopNoLookup(st, ci, k, d) ==
    IF k > Len(Deref(ci.ImplementedRequirements)) THEN st
    ELSE LET id == Deref(ci.ImplementedRequirements)[k].ControlId
         IN  IF id = "" THEN requirementsLoopNoLookup(st, ci, k + 1, d)
             ELSE LET added == [st EXCEPT !.includeControls = Add(@, id)]
                      titled ==
                          IF haveDependencies(d)
                          THEN LET r == getControlTitle(id, ci, Deref(d.profileLoader))
                               IN  [added EXCEPT
                                      !.controlTitles =
                                          (id :> (IF ~IsNil(r.err) THEN id ELSE r.title)) @@ @,
                                      !.calls = Append(@, id)]
                          ELSE [added EXCEPT !.controlTitles = (id :> id) @@ @]
                  IN  requirementsLoopNoLookup(titled, ci, k + 1, d)

\* Loop over ci.ImplementedRequirements.  st holds includeControls,
\* controlTitles and the calls made to getControlTitle.
RECURSIVE requirementsLoop(_, _, _, _)
requirementsLoop(st, ci, k, d) ==
    IF k > Len(Deref(ci.ImplementedRequirements)) THEN st
    ELSE LET id == Deref(ci.ImplementedRequirements)[k].ControlId
         IN  IF id = "" THEN requirementsLoop(st, ci, k + 1, d)
             ELSE LET added == [st EXCEPT !.includeControls = Add(@, id)]
                      titled ==
                          IF haveDependencies(d)
                          THEN IF id \in DOMAIN added.controlTitles THEN added
                               ELSE LET r == getControlTitle(id, ci, Deref(d.profileLoader))
                                    IN  [added EXCEPT
                                           !.controlTitles =
                                               (id :> (IF ~IsNil(r.err) THEN id ELSE r.title)) @@ @,
                                           !.calls = Append(@, id)]
                          ELSE [added EXCEPT !.controlTitles = (id :> id) @@ @]
                  IN  requirementsLoop(titled, ci, k + 1, d)

\* Faulty variant: the value of the framework tag is not compared with the
\* requested framework id.
RECURSIVE implementationsLoopAnyFramework(_, _, _, _, _)
implementationsLoopAnyFramework(st, cis, k, frameworkID, d) ==
    IF k > Len(cis) THEN st
    ELSE LET ci == cis[k]
             frameworkProp == GetTrestleProp(FrameworkProp, Deref(ci.Props))
         IN  IF IsNil(ci.ImplementedRequirements) \/ IsNil(ci.Props)
             THEN implementationsLoopAnyFramework(st, cis, k + 1, frameworkID, d)
             ELSE IF ~frameworkProp.found
             THEN implementationsLoopAnyFramework(st, cis, k + 1, frameworkID, d)
             ELSE implementationsLoopAnyFramework(requirementsLoop(st, ci, 1, d), cis, k + 1,
                                                  frameworkID, d)

\* Loop over a component's control implementations.
RECURSIVE implementationsLoop(_, _, _, _, _)
implementationsLoop(st, cis, k, frameworkID, d) ==
    IF k > Len(cis) THEN st
    ELSE LET ci == cis[k]
             frameworkProp == GetTrestleProp(FrameworkProp, Deref(ci.Props))
         IN  IF IsNil(ci.ImplementedRequirements) \/ IsNil(ci.Props)
             THEN implementationsLoop(st, cis, k + 1, frameworkID, d)
             ELSE IF ~frameworkProp.found \/ frameworkProp.Value # frameworkID
             THEN implementationsLoop(st, cis, k + 1, frameworkID, d)
             ELSE implementationsLoop(requirementsLoop(st, ci, 1, d), cis, k + 1, frameworkID, d)

\* Loop over a component definition's components.
RECURSIVE componentsLoop(_, _, _, _, _)
componentsLoop(st, components, k, frameworkID, d) ==
    IF k > Len(components) THEN st
    ELSE IF IsNil(components[k].ControlImplementations)
    THEN componentsLoop(st, components, k + 1, frameworkID, d)
    ELSE componentsLoop(
             implementationsLoop(st, Deref(components[k].ControlImplementations), 1, frameworkID, d),
             components, k + 1, frameworkID, d)

\* Faulty variant: a definition without components ends the loop.
RECURSIVE definitionsLoopBreaks(_, _, _, _, _)
definitionsLoopBreaks(st, defs, k, frameworkID, d) ==
    IF k > Len(defs) THEN st
    ELSE IF IsNil(defs[k].Components)
    THEN st
    ELSE definitionsLoopBreaks(componentsLoop(st, Deref(defs[k].Components), 1, frameworkID, d),
                               defs, k + 1, frameworkID, d)

\* Loop over the component definitions.
RECURSIVE definitionsLoop(_, _, _, _, _)
definitionsLoop(st, defs, k, frameworkID, d) ==
    IF k > Len(defs) THEN st
    ELSE IF IsNil(defs[k].Components)
    THEN definitionsLoop(st, defs, k + 1, frameworkID, d)
    ELSE definitionsLoop(componentsLoop(st, Deref(defs[k].Components), 1, frameworkID, d),
                         defs, k + 1, frameworkID, d)

\* Go's order on the control ids of the model.
IDOrder == <<"", "A", "B", "C">>

Rank(id) == CHOOSE k \in 1..Len(IDOrder) : IDOrder[k] = id

less(x, y) == Rank(x.ControlID) < Rank(y.ControlID)

\* Faulty variant: the entries are left in the order All() yielded them.
sortSliceLeavesOrder(s) == s

\* sort.Slice(scope.IncludeControls, less), as an insertion sort.
RECURSIVE sortSlice(_)
sortSlice(s) ==
    IF s = <<>> THEN <<>>
    ELSE LET rest == sortSlice(Tail(s))
             before == SelectSeq(rest, LAMBDA e : less(e, Head(s)))
             after == SelectSeq(rest, LAMBDA e : ~less(e, Head(s)))
         IN  before \o <<Head(s)>> \o after

\* The entries made from controlIDs, before they are sorted.
entriesOf(controlIDs, controlTitles) ==
    [k \in 1..Len(controlIDs) |->
        ControlEntry(controlIDs[k],
                     IF controlIDs[k] \in DOMAIN controlTitles THEN controlTitles[controlIDs[k]]
                     ELSE "")]

\* NewAssessmentScopeFromCDsWithTitles: the outcomes [scope, err, calls, keys],
\* one per order in which All() yields the ids.  (The loop that follows All() adds
\* to the set the ids it already has, and the set is not read after it.)
buildScope(frameworkID, d, defs) ==
    IF IsNil(defs)
    THEN {[scope |-> ZeroAssessmentScope, err |-> Ptr("no component definitions found"),
           calls |-> <<>>, keys |-> <<>>]}
    ELSE LET st == definitionsLoop(
                       [includeControls |-> {}, controlTitles |-> <<>>, calls |-> <<>>],
                       Deref(defs), 1, frameworkID, d)
         IN  {[scope |-> [NewAssessmentScope(frameworkID) EXCEPT
                            !.IncludeControls = sortSlice(entriesOf(controlIDs, st.controlTitles))],
               err |-> Nil,
               calls |-> st.calls,
               keys |-> controlIDs] :
              controlIDs \in All(st.includeControls)}

-----------------------------------------------------------------------------
(* Plan filtering *)

skipped == [Name |-> "skipped", Value |-> "true", Ns |-> TrestleNameSpace]

\* Faulty variant: the bag is replaced by one holding only the new property.
AppendPropOverwrites(props, p) == Ptr(<<p>>)

\* *props = append(*props, p), after creating the bag when it is nil
AppendProp(props, p) == Ptr(Append(IF IsNil(props) THEN <<>> ELSE Deref(props), p))

\* The set built from the selection's include list: the control ids, and, when
\* the selection has a property bag, the names of its properties.
originalIncludedControls(controlSelection) ==
    IF IsNil(controlSelection.IncludeControls) THEN {}
    ELSE {e.ControlId : e \in Range(Deref(controlSelection.IncludeControls))}
         \cup (IF IsNil(controlSelection.Props) THEN {}
               ELSE {p.Name : p \in Range(Deref(controlSelection.Props))})

\* Faulty variant: the include-all marker is not taken into account.
newIncludedControlsIgnoresIncludeAll(controlSelection, order) ==
    LET original == originalIncludedControls(controlSelection)
        kept == SelectSeq(order, LAMBDA controlId : Has(original, controlId))
    IN  [k \in 1..Len(kept) |-> [ControlId |-> kept[k]]]

\* Faulty variant: a control is kept only when the marker was present and it was explicit.
newIncludedControlsAnd(controlSelection, order) ==
    LET includedAll == ~IsNil(controlSelection.IncludeAll)
        original == originalIncludedControls(controlSelection)
        kept == SelectSeq(order, LAMBDA controlId : includedAll /\ Has(original, controlId))
    IN  [k \in 1..Len(kept) |-> [ControlId |-> kept[k]]]

\* The new include list, for one order of the range over includedControls.
newIncludedControls(controlSelection, order) ==
    LET includedAll == ~IsNil(controlSelection.IncludeAll)
        original == originalIncludedControls(controlSelection)
        kept == SelectSeq(order, LAMBDA controlId : includedAll \/ Has(original, controlId))
    IN  [k \in 1..Len(kept) |-> [ControlId |-> kept[k]]]

\* Faulty variant: the new list is stored even when nothing was appended to it.
setIncludeControlsAlways(controlSelection, new) ==
    [controlSelection EXCEPT !.IncludeAll = Nil, !.IncludeControls = Ptr(new)]

\* The slice is nil unless something was appended to it.
setIncludeControls(controlSelection, new) ==
    [controlSelection EXCEPT !.IncludeAll = Nil,
                             !.IncludeControls = IF new = <<>> THEN Nil ELSE Ptr(new)]

\* The selection after filterControlSelection, one per order of the map range.
filterControlSelection(controlSelection, includedControls) ==
    {setIncludeControls(controlSelection, newIncludedControls(controlSelection, order)) :
        order \in MapRange(includedControls)}

\* Faulty variant: the activity's RelatedControls reference is not cleared.
RECURSIVE relatedControlsLoopKeepsReference(_, _, _, _)
relatedControlsLoopKeepsReference(activity, controlSelections, i, includedControls) ==
    IF i > Len(controlSelections)
    THEN {[activity EXCEPT !.RelatedControls =
                             Ptr([ControlSelections |-> Ptr(controlSelections)])]}
    ELSE UNION {
           relatedControlsLoopKeepsReference(
               IF IsNil(f.IncludeControls)
               THEN [activity EXCEPT !.Props = AppendProp(@, skipped)]
               ELSE activity,
               [controlSelections EXCEPT ![i] = f], i + 1, includedControls) :
           f \in filterControlSelection(controlSelections[i], includedControls)}

\* Loop over an activity's RelatedControls.ControlSelections.  controlSelections
\* is the local slice, which shares its elements with the activity's until the
\* activity's RelatedControls is set to nil.
RECURSIVE relatedControlsLoop(_, _, _, _)
relatedControlsLoop(activity, controlSelections, i, includedControls) ==
    IF i > Len(controlSelections)
    THEN {IF IsNil(activity.RelatedControls) THEN activity
          ELSE [activity EXCEPT !.RelatedControls =
                                  Ptr([ControlSelections |-> Ptr(controlSelections)])]}
    ELSE UNION {
           relatedControlsLoop(
               IF IsNil(f.IncludeControls)
               THEN [activity EXCEPT !.RelatedControls = Nil,
                                     !.Props = AppendProp(@, skipped)]
               ELSE activity,
               [controlSelections EXCEPT ![i] = f], i + 1, includedControls) :
           f \in filterControlSelection(controlSelections[i], includedControls)}

\* The step as the plan sees it: the local slice is the step's own slice while
\* the step's ReviewedControls is not nil.
stepWith(step, controlSelections) ==
    IF IsNil(step.ReviewedControls) THEN step
    ELSE [step EXCEPT !.ReviewedControls = Ptr([ControlSelections |-> Ptr(controlSelections)])]

\* Loop over one step's ReviewedControls.ControlSelections.  Assigning through
\* activity.RelatedControls when it is nil is a nil pointer dereference.
RECURSIVE reviewedControlsLoop(_, _, _, _, _)
reviewedControlsLoop(activity, step, controlSelections, i, includedControls) ==
    IF i > Len(controlSelections)
    THEN {[activity |-> activity, step |-> stepWith(step, controlSelections), panicked |-> FALSE]}
    ELSE UNION {
           LET filtered == [controlSelections EXCEPT ![i] = f]
           IN  IF ~IsNil(f.IncludeControls)
               THEN reviewedControlsLoop(activity, step, filtered, i + 1, includedControls)
               ELSE IF IsNil(activity.RelatedControls)
               THEN {[activity |-> activity, step |-> stepWith(step, filtered), panicked |-> TRUE]}
               ELSE reviewedControlsLoop(
                        [activity EXCEPT !.RelatedControls = Ptr([ControlSelections |-> Nil])],
                        [step EXCEPT !.ReviewedControls = Nil, !.Props = AppendProp(@, skipped)],
                        filtered, i + 1, includedControls) :
           f \in filterControlSelection(controlSelections[i], includedControls)}

\* Loop over an activity's steps.
RECURSIVE stepsLoop(_, _, _, _)
stepsLoop(activity, steps, stepI, includedControls) ==
    IF stepI > Len(steps)
    THEN {[activity |-> [activity EXCEPT !.Steps = Ptr(steps)], panicked |-> FALSE]}
    ELSE LET step == steps[stepI]
         IN  IF IsNil(step.ReviewedControls)
                \/ IsNil(Deref(step.ReviewedControls).ControlSelections)
             THEN stepsLoop(activity, steps, stepI + 1, includedControls)
             ELSE UNION {
                    IF r.panicked
                    THEN {[activity |-> [r.activity EXCEPT
                                           !.Steps = Ptr([steps EXCEPT ![stepI] = r.step])],
                           panicked |-> TRUE]}
                    ELSE stepsLoop(r.activity, [steps EXCEPT ![stepI] = r.step],
                                   stepI + 1, includedControls) :
                    r \in reviewedControlsLoop(
                              activity, step,
                              Deref(Deref(step.ReviewedControls).ControlSelections),
                              1, includedControls)}

\* The body of the loop over the activities, for one activity.
applyToActivity(activity, includedControls) ==
    LET related ==
            IF ~IsNil(activity.RelatedControls)
               /\ ~IsNil(Deref(activity.RelatedControls).ControlSelections)
            THEN relatedControlsLoop(
                     activity, Deref(Deref(activity.RelatedControls).ControlSelections),
                     1, includedControls)
            ELSE {activity}
    IN  UNION {IF IsNil(a.Steps) THEN {[activity |-> a, panicked |-> FALSE]}
               ELSE stepsLoop(a, Deref(a.Steps), 1, includedControls) : a \in related}

\* Faulty variant: the activities tagged as skipped are removed from the slice.
RECURSIVE activitiesLoopDropsSkipped(_, _, _)
activitiesLoopDropsSkipped(activities, activityI, includedControls) ==
    IF activityI > Len(activities)
    THEN {[activities |->
               SelectSeq(activities,
                         LAMBDA a : IsNil(a.Props) \/ skipped \notin Range(Deref(a.Props))),
           panicAt |-> 0]}
    ELSE UNION {
           IF r.panicked
           THEN {[activities |-> [activities EXCEPT ![activityI] = r.activity],
                  panicAt |-> activityI]}
           ELSE activitiesLoopDropsSkipped([activities EXCEPT ![activityI] = r.activity],
                                           activityI + 1, includedControls) :
           r \in applyToActivity(activities[activityI], includedControls)}

\* Loop over LocalDefinitions.Activities.
RECURSIVE activitiesLoop(_, _, _)
activitiesLoop(activities, activityI, includedControls) ==
    IF activityI > Len(activities)
    THEN {[activities |-> activities, panicAt |-> 0]}
    ELSE UNION {
           IF r.panicked
           THEN {[activities |-> [activities EXCEPT ![activityI] = r.activity],
                  panicAt |-> activityI]}
           ELSE activitiesLoop([activities EXCEPT ![activityI] = r.activity],
                               activityI + 1, includedControls) :
           r \in applyToActivity(activities[activityI], includedControls)}

\* Loop over the plan's own ReviewedControls.ControlSelections.
RECURSIVE rootLoop(_, _, _)
rootLoop(controlSelections, i, includedControls) ==
    IF i > Len(controlSelections) THEN {controlSelections}
    ELSE UNION {rootLoop([controlSelections EXCEPT ![i] = f], i + 1, includedControls) :
                f \in filterControlSelection(controlSelections[i], includedControls)}

\* The set the scope's IncludeControls is collected into.
includedControlsOf(a) ==
    {a.IncludeControls[k].ControlID : k \in 1..Len(a.IncludeControls)}

\* applyControlScope: the outcomes [plan, panicAt] of one call.  (The first
\* loop over the root's selections only reads the names of their properties.)
applyControlScope(a, assessmentPlan) ==
    LET includedControls == includedControlsOf(a)
        locals ==
            IF ~IsNil(assessmentPlan.LocalDefinitions)
               /\ ~IsNil(Deref(assessmentPlan.LocalDefinitions).Activities)
            THEN {[plan |-> [assessmentPlan EXCEPT !.LocalDefinitions =
                                                     Ptr([Activities |-> Ptr(r.activities)])],
                   panicAt |-> r.panicAt] :
                  r \in activitiesLoop(Deref(Deref(assessmentPlan.LocalDefinitions).Activities),
                                       1, includedControls)}
            ELSE {[plan |-> assessmentPlan, panicAt |-> 0]}
    IN  UNION {
          IF r.panicAt # 0 \/ IsNil(r.plan.ReviewedControls.ControlSelections)
          THEN {r}
          ELSE {[plan |-> [r.plan EXCEPT !.ReviewedControls.ControlSelections = Ptr(s)],
                 panicAt |-> 0] :
                s \in rootLoop(Deref(r.plan.ReviewedControls.ControlSelections),
                               1, includedControls)} :
          r \in locals}

-----------------------------------------------------------------------------
(* Inputs *)

ControlIDs == <<"A", "B", "C">>

ScopeIDs == {"A", "B"}

ScopeInputs ==
    {[FrameworkID |-> "example",
      IncludeControls |-> [k \in 1..Len(q) |-> ControlEntry(q[k], q[k])]] :
     q \in SeqsUpTo(ScopeIDs, MaxScopeLen)}

SelectById(ids) == [k \in 1..Len(ids) |-> [ControlId |-> ids[k]]]

Property(name) == [Name |-> name, Value |-> "x", Ns |-> TrestleNameSpace]

\* Include lists: absent, or the members of a set of control ids.
IncludeListInputs ==
    {Nil} \cup
    {Ptr(SelectById(SelectSeq(ControlIDs, LAMBDA c : c \in S))) :
     S \in {T \in SUBSET Range(ControlIDs) : Cardinality(T) <= MaxIncludeLen}}

PropsInputs == {Nil, Ptr(<<Property("label")>>), Ptr(<<Property("B")>>)}

IncludeAllInputs == {Nil, Ptr([Remarks |-> ""])}

SelectionInputs ==
    [IncludeAll : IncludeAllInputs, IncludeControls : IncludeListInputs, Props : PropsInputs]

ExplicitA == [IncludeAll |-> Nil, IncludeControls |-> Ptr(SelectById(<<"A">>)), Props |-> Nil]

ExplicitB == [IncludeAll |-> Nil, IncludeControls |-> Ptr(SelectById(<<"B">>)), Props |-> Nil]

IncludeAllOnly == [IncludeAll |-> Ptr([Remarks |-> ""]), IncludeControls |-> Nil, Props |-> Nil]

\* The selections used in activities and steps that hold several of them.
NestedSelectionInputs == {ExplicitA, ExplicitB}

\* A *ReviewedControls: nil, or one whose ControlSelections is nil or a slice.
ReviewedControlsInputs ==
    {Nil, Ptr([ControlSelections |-> Nil])} \cup
    {Ptr([ControlSelections |-> Ptr(s)]) : s \in SeqsUpTo(NestedSelectionInputs, MaxSelections)}

NodePropsInputs == {Nil, Ptr(<<Property("label")>>)}

StepInputs == [ReviewedControls : ReviewedControlsInputs, Props : NodePropsInputs]

\* An activity has no steps, or one.
StepsInputs == {Nil, Ptr(<<>>)} \cup {Ptr(<<s>>) : s \in StepInputs}

ActivityInputs ==
    [RelatedControls : ReviewedControlsInputs, Props : NodePropsInputs, Steps : StepsInputs]

\* Activities for the plans that have two of them: no property bag, at most
\* one selection in the activity and at most one step, with one selection.
SingleSelectionInputs ==
    {Nil} \cup {Ptr([ControlSelections |-> Ptr(<<c>>)]) :
                c \in {ExplicitA, IncludeAllOnly}}

SmallActivityInputs ==
    {[RelatedControls |-> rc, Props |-> Nil, Steps |-> st] :
     rc \in SingleSelectionInputs,
     st \in {Nil} \cup {Ptr(<<[ReviewedControls |-> sc, Props |-> Nil]>>) :
                        sc \in SingleSelectionInputs \ {Nil}}}

\* No local definitions, no activities, one activity, or two small ones.
LocalDefinitionsInputs ==
    {Nil, Ptr([Activities |-> Nil]), Ptr([Activities |-> Ptr(<<>>)])}
    \cup {Ptr([Activities |-> Ptr(<<a>>)]) : a \in ActivityInputs}
    \cup {Ptr([Activities |-> Ptr(<<a, b>>)]) : a, b \in SmallActivityInputs}

\* Plans: any selections at the root and no local definitions, or local
\* definitions under a root that is absent or selects control A.
PlanInputs ==
    {[ReviewedControls |-> [ControlSelections |-> cs], LocalDefinitions |-> Nil] :
     cs \in {Nil} \cup {Ptr(s) : s \in SeqsUpTo(SelectionInputs, MaxRootSelections)}}
    \cup
    {[ReviewedControls |-> [ControlSelections |-> cs], LocalDefinitions |-> ld] :
     cs \in {Nil, Ptr(<<ExplicitA>>)}, ld \in LocalDefinitionsInputs}

\* Inputs of the scope constructors

BuildIDs == {"", "A", "B"}

Requirements(ids) == [k \in 1..Len(ids) |-> [ControlId |-> ids[k]]]

RequirementsInputs ==
    {Nil} \cup {Ptr(Requirements(ids)) : ids \in SeqsUpTo(BuildIDs, MaxRequirements)}

FrameworkTag(value) == [Name |-> FrameworkProp, Value |-> value, Ns |-> TrestleNameSpace]

ImplementationPropsInputs ==
    {Nil,
     Ptr(<<>>),
     Ptr(<<FrameworkTag("example")>>),
     Ptr(<<FrameworkTag("other")>>),
     Ptr(<<[Name |-> FrameworkProp, Value |-> "example", Ns |-> ""]>>),
     Ptr(<<Property("label"), FrameworkTag("example")>>)}

ImplementationInputs ==
    [Source : {"profile.json"}, Props : ImplementationPropsInputs,
     ImplementedRequirements : RequirementsInputs]

Implementation(props, ids) ==
    [Source |-> "profile.json", Props |-> props,
     ImplementedRequirements |-> Ptr(Requirements(ids))]

\* The implementations of the components that have several of them.
SmallImplementationInputs ==
    {Implementation(Ptr(<<FrameworkTag("example")>>), <<"A">>),
     Implementation(Ptr(<<FrameworkTag("example")>>), <<"B", "A">>),
     Implementation(Ptr(<<FrameworkTag("other")>>), <<"B">>)}

ComponentInputs ==
    {[ControlImplementations |-> Nil]}
    \cup {[ControlImplementations |-> Ptr(<<ci>>)] : ci \in ImplementationInputs}
    \cup {[ControlImplementations |-> Ptr(s)] :
          s \in SeqsUpTo(SmallImplementationInputs, MaxImplementations)}

\* The components of the definitions that have two of them.
SmallComponentInputs ==
    {[ControlImplementations |-> Ptr(<<ci>>)] : ci \in SmallImplementationInputs}

ComponentDefinitionInputs ==
    {[Components |-> Nil], [Components |-> Ptr(<<>>)]}
    \cup {[Components |-> Ptr(<<c>>)] : c \in ComponentInputs}
    \cup {[Components |-> Ptr(<<c1, c2>>)] : c1, c2 \in SmallComponentInputs}

\* The definitions of the calls that are given several of them.
SmallComponentDefinitionInputs ==
    {[Components |-> Nil]}
    \cup {[Components |-> Ptr(<<c>>)] : c \in SmallComponentInputs}

\* cds: no variadic argument (nil), an empty list spread, one definition, or
\* several small ones.
ComponentDefinitionsInputs ==
    {Nil} \cup {Ptr(<<cd>>) : cd \in ComponentDefinitionInputs}
    \cup {Ptr(s) : s \in SeqsUpTo(SmallComponentDefinitionInputs, MaxDocs)}

Catalog(controls) == Ptr([Groups |-> Ptr(<<[Controls |-> Nil], [Controls |-> Ptr(controls)]>>)])

\* What the profile loader returns: nil stands for an error.
ProfileLoaderInputs ==
    {[LoadProfile |-> [src \in {"profile.json"} |-> Nil],
      LoadCatalogSource |-> [href \in {"catalog.json", "other.json"} |-> Nil]],
     [LoadProfile |-> [src \in {"profile.json"} |-> Ptr([Imports |-> Nil])],
      LoadCatalogSource |-> [href \in {"catalog.json", "other.json"} |-> Nil]],
     [LoadProfile |-> [src \in {"profile.json"} |->
                          Ptr([Imports |-> Ptr(<<[Href |-> "catalog.json"]>>)])],
      LoadCatalogSource |-> [href \in {"catalog.json", "other.json"} |-> Nil]],
     [LoadProfile |-> [src \in {"profile.json"} |->
                          Ptr([Imports |-> Ptr(<<[Href |-> "catalog.json"]>>)])],
      LoadCatalogSource |->
          [href \in {"catalog.json", "other.json"} |->
              Catalog(<<[ID |-> "A", Title |-> "Title A"], [ID |-> "B", Title |-> ""]>>)]],
     [LoadProfile |-> [src \in {"profile.json"} |->
                          Ptr([Imports |-> Ptr(<<[Href |-> "other.json"],
                                                 [Href |-> "catalog.json"]>>)])],
      LoadCatalogSource |->
          [href \in {"catalog.json", "other.json"} |->
              IF href = "other.json" THEN Ptr([Groups |-> Nil])
              ELSE Catalog(<<[ID |-> "A", Title |-> "Title A"],
                             [ID |-> "B", Title |-> "Title B"]>>)]]}

NoDependencies == [appDir |-> FALSE, validator |-> FALSE, profileLoader |-> Nil]

DependenciesInputs ==
    {NoDependencies}
    \cup {[appDir |-> TRUE, validator |-> TRUE, profileLoader |-> Ptr(l)] :
          l \in ProfileLoaderInputs}
    \cup {[appDir |-> TRUE, validator |-> FALSE, profileLoader |-> Ptr(l)] :
          l \in ProfileLoaderInputs}

-----------------------------------------------------------------------------
(* Specifications *)

\* No plan, and no call made on it.
IdleApply ==
    /\ scope = NewAssessmentScope("example")
    /\ plan = [ReviewedControls |-> [ControlSelections |-> Nil], LocalDefinitions |-> Nil]
    /\ prev = plan
    /\ applies = 0
    /\ panicAt = 0

\* No component definitions, and the constructors not called.
IdleBuild ==
    /\ frameworkId = "example"
    /\ deps = NoDependencies
    /\ cds = Nil
    /\ built = Nil
    /\ titleCalls = <<>>
    /\ allKeys = <<>>

Init ==
    /\ scope \in ScopeInputs
    /\ plan \in PlanInputs
    /\ prev = plan
    /\ applies = 0
    /\ panicAt = 0
    /\ IdleBuild

\* Faulty variant: the entries of the scope are sorted in place before use.
ApplyScopeSortsScope ==
    /\ applies < MaxApplies
    /\ panicAt = 0
    /\ \E r \in applyControlScope(scope, plan) :
          /\ plan' = r.plan
          /\ panicAt' = r.panicAt
    /\ prev' = plan
    /\ applies' = applies + 1
    /\ scope' = [scope EXCEPT !.IncludeControls = sortSlice(@)]
    /\ UNCHANGED buildVars

\* AssessmentScope.ApplyScope(assessmentPlan, logger).  A call that panicked
\* ends the process.
ApplyScope ==
    /\ applies < MaxApplies
    /\ panicAt = 0
    /\ \E r \in applyControlScope(scope, plan) :
          /\ plan' = r.plan
          /\ panicAt' = r.panicAt
    /\ prev' = plan
    /\ applies' = applies + 1
    /\ UNCHANGED <<scope, buildVars>>

Next == ApplyScope

Spec == Init /\ [][Next]_vars

InitBuild ==
    /\ frameworkId = "example"
    /\ deps \in DependenciesInputs
    /\ cds \in ComponentDefinitionsInputs
    /\ built = Nil
    /\ titleCalls = <<>>
    /\ allKeys = <<>>
    /\ IdleApply

\* NewAssessmentScopeFromCDsWithTitles(frameworkId, appDir, validator, profileLoader, cds...)
NewAssessmentScopeFromCDsWithTitles ==
    /\ IsNil(built)
    /\ \E r \in buildScope(frameworkId, deps, cds) :
          /\ built' = Ptr([scope |-> r.scope, err |-> r.err])
          /\ titleCalls' = r.calls
          /\ allKeys' = r.keys
    /\ UNCHANGED <<frameworkId, deps, cds, applyVars>>

\* NewAssessmentScopeFromCDs(frameworkId, cds...)
NewAssessmentScopeFromCDs ==
    /\ IsNil(built)
    /\ \E r \in buildScope(frameworkId, NoDependencies, cds) :
          /\ built' = Ptr([scope |-> r.scope, err |-> r.err])
          /\ titleCalls' = r.calls
          /\ allKeys' = r.keys
    /\ UNCHANGED <<frameworkId, deps, cds, applyVars>>

NextBuild == NewAssessmentScopeFromCDsWithTitles \/ NewAssessmentScopeFromCDs

SpecBuild == InitBuild /\ [][NextBuild]_vars

-----------------------------------------------------------------------------
(* Reading a plan *)

\* The control ids a selection includes explicitly.
IdSet(controlSelection) ==
    IF IsNil(controlSelection.IncludeControls) THEN {}
    ELSE {e.ControlId : e \in Range(Deref(controlSelection.IncludeControls))}

ScopeSet == includedControlsOf(scope)

\* The selections reachable through a *ReviewedControls.
SelectionsOf(rc) ==
    IF IsNil(rc) \/ IsNil(Deref(rc).ControlSelections) THEN <<>>
    ELSE Deref(Deref(rc).ControlSelections)

RootSelectionsOf(p) ==
    IF IsNil(p.ReviewedControls.ControlSelections) THEN <<>>
    ELSE Deref(p.ReviewedControls.ControlSelections)

ActivitiesOf(p) ==
    IF IsNil(p.LocalDefinitions) \/ IsNil(Deref(p.LocalDefinitions).Activities) THEN <<>>
    ELSE Deref(Deref(p.LocalDefinitions).Activities)

StepsOf(activity) == IF IsNil(activity.Steps) THEN <<>> ELSE Deref(activity.Steps)

PropsOf(node) == IF IsNil(node.Props) THEN <<>> ELSE Deref(node.Props)

SkippedCount(node) == Cardinality({k \in 1..Len(PropsOf(node)) : PropsOf(node)[k] = skipped})

\* The selection comes out of filterControlSelection with no IncludeControls.
FiltersToAbsent(controlSelection) ==
    \E f \in filterControlSelection(controlSelection, ScopeSet) : IsNil(f.IncludeControls)

\* The latest call ran the loop over activity i's RelatedControls.
ActivityVisited(i) == applies > 0 /\ (panicAt = 0 \/ i <= panicAt)

\* The latest call ran the loops over all the steps of activity i.
StepsVisited(i) == applies > 0 /\ (panicAt = 0 \/ i < panicAt)

Pairs(pre, post) == {<<pre[k], post[k]>> : k \in 1..Len(post)}

\* <<before, after>> for every selection the latest call filtered and that the
\* plan still holds.
VisitedPairs ==
    (IF applies > 0 /\ panicAt = 0
     THEN Pairs(RootSelectionsOf(prev), RootSelectionsOf(plan)) ELSE {})
    \cup UNION {Pairs(SelectionsOf(ActivitiesOf(prev)[i].RelatedControls),
                      SelectionsOf(ActivitiesOf(plan)[i].RelatedControls)) :
                i \in {n \in 1..Len(ActivitiesOf(plan)) : ActivityVisited(n)}}
    \cup UNION {UNION {Pairs(SelectionsOf(StepsOf(ActivitiesOf(prev)[i])[j].ReviewedControls),
                             SelectionsOf(StepsOf(ActivitiesOf(plan)[i])[j].ReviewedControls)) :
                       j \in 1..Len(StepsOf(ActivitiesOf(plan)[i]))} :
                i \in {n \in 1..Len(ActivitiesOf(plan)) : StepsVisited(n)}}

\* A plan with every include list read as the set of its control ids.
CanonSelection(s) ==
    [IncludeAll |-> s.IncludeAll, Absent |-> IsNil(s.IncludeControls), Ids |-> IdSet(s),
     Props |-> s.Props]

CanonSelections(cs) ==
    IF IsNil(cs) THEN Nil ELSE Ptr([k \in 1..Len(Deref(cs)) |-> CanonSelection(Deref(cs)[k])])

CanonReviewedControls(rc) ==
    IF IsNil(rc) THEN Nil
    ELSE Ptr([ControlSelections |-> CanonSelections(Deref(rc).ControlSelections)])

CanonStep(step) ==
    [ReviewedControls |-> CanonReviewedControls(step.ReviewedControls), Props |-> step.Props]

CanonActivity(activity) ==
    [RelatedControls |-> CanonReviewedControls(activity.RelatedControls),
     Props |-> activity.Props,
     Absent |-> IsNil(activity.Steps),
     Steps |-> [j \in 1..Len(StepsOf(activity)) |-> CanonStep(StepsOf(activity)[j])]]

Canon(p) ==
    [ReviewedControls |-> CanonSelections(p.ReviewedControls.ControlSelections),
     LocalDefinitions |-> <<IsNil(p.LocalDefinitions),
                            ~IsNil(p.LocalDefinitions) /\ IsNil(Deref(p.LocalDefinitions).Activities)>>,
     Activities |-> [i \in 1..Len(ActivitiesOf(p)) |-> CanonActivity(ActivitiesOf(p)[i])]]

-----------------------------------------------------------------------------
(* Claims *)

\* C1: a selection that carried no include-all marker holds, after filtering,
\* only controls of its pre-filter explicit include list.
C1_NeverInventsMembership ==
    \A p \in VisitedPairs : IsNil(p[1].IncludeAll) => IdSet(p[2]) \subseteq IdSet(p[1])

\* C2: ApplyScope never panics.
C2_ApplyScopeNeverFails == panicAt = 0

\* C3: a second ApplyScope leaves the plan as the first one left it: the same
\* include sets, cleared references and property bags, and no panic.
C3_Idempotent == applies >= 2 => panicAt = 0 /\ Canon(plan) = Canon(prev)

\* C3 witness: a second call was made on a plan whose activity had been
\* tagged as skipped and whose root selection had been narrowed by the first.
C3_Witness ==
    /\ applies = 2
    /\ \E i \in 1..Len(ActivitiesOf(plan)) : SkippedCount(ActivitiesOf(plan)[i]) = 1
    /\ \E k \in 1..Len(RootSelectionsOf(plan)) : IdSet(RootSelectionsOf(plan)[k]) = {"A"}

\* C4: a step with a selection that filters to absent ends the first call with
\* ReviewedControls absent and exactly one more skipped property, and a
\* second call adds no skipped property to any step.
C4_StepSkippedOnce ==
    \A i \in 1..Len(ActivitiesOf(plan)) : \A j \in 1..Len(StepsOf(ActivitiesOf(plan)[i])) :
        LET pre == StepsOf(ActivitiesOf(prev)[i])[j]
            post == StepsOf(ActivitiesOf(plan)[i])[j]
            sels == SelectionsOf(pre.ReviewedControls)
        IN  /\ (applies = 1 /\ \E k \in 1..Len(sels) : FiltersToAbsent(sels[k]))
               => IsNil(post.ReviewedControls) /\ SkippedCount(post) = SkippedCount(pre) + 1
            /\ applies >= 2 => SkippedCount(post) = SkippedCount(pre)

\* C5: an activity visited by the call with a RelatedControls selection that
\* filters to absent has its RelatedControls cleared and skipped properties
\* appended to its bag (created if absent); one whose selections all stay
\* non-empty keeps its RelatedControls reference and its property bag.
C5_ActivitySkipped ==
    \A i \in {n \in 1..Len(ActivitiesOf(plan)) : ActivityVisited(n)} :
        LET pre == ActivitiesOf(prev)[i]
            post == ActivitiesOf(plan)[i]
            sels == SelectionsOf(pre.RelatedControls)
        IN  /\ (\E k \in 1..Len(sels) : FiltersToAbsent(sels[k]))
               => /\ IsNil(post.RelatedControls)
                  /\ ~IsNil(post.Props)
                  /\ \E n \in 1..Len(sels) :
                        Deref(post.Props) = PropsOf(pre) \o [k \in 1..n |-> skipped]
            /\ (Len(sels) > 0 /\ \A k \in 1..Len(sels) : ~FiltersToAbsent(sels[k]))
               => ~IsNil(post.RelatedControls) /\ post.Props = pre.Props

\* C5 witness: an activity without a property bag had a selection filter to
\* absent, and now has a bag holding the skipped property.
C5_Witness ==
    /\ applies = 1
    /\ \E i \in {n \in 1..Len(ActivitiesOf(plan)) : ActivityVisited(n)} :
          /\ IsNil(ActivitiesOf(prev)[i].Props)
          /\ \E k \in 1..Len(SelectionsOf(ActivitiesOf(prev)[i].RelatedControls)) :
                FiltersToAbsent(SelectionsOf(ActivitiesOf(prev)[i].RelatedControls)[k])
          /\ ActivitiesOf(plan)[i].Props = Ptr(<<skipped>>)

\* C6: a selection that carried the include-all marker has it cleared and
\* includes exactly the controls in scope.
C6_IncludeAllYieldsScope ==
    \A p \in VisitedPairs :
        ~IsNil(p[1].IncludeAll) => IsNil(p[2].IncludeAll) /\ IdSet(p[2]) = ScopeSet

\* C6 witness: include-all with explicit list {C} under scope {A, B} became {A, B}.
C6_Witness ==
    /\ applies = 1
    /\ ScopeSet = {"A", "B"}
    /\ \E p \in VisitedPairs :
          ~IsNil(p[1].IncludeAll) /\ IdSet(p[1]) = {"C"} /\ IdSet(p[2]) = {"A", "B"}

\* C7: every control that is in scope and was explicit in the selection is
\* in the selection after filtering.
C7_RetainsExplicitInScope ==
    \A p \in VisitedPairs : (ScopeSet \cap IdSet(p[1])) \subseteq IdSet(p[2])

\* C7 witness: explicit {A, B} without marker under scope {B} became {B}.
C7_Witness ==
    /\ applies = 1
    /\ ScopeSet = {"B"}
    /\ \E p \in VisitedPairs :
          IsNil(p[1].IncludeAll) /\ IdSet(p[1]) = {"A", "B"} /\ IdSet(p[2]) = {"B"}

\* C8: after filtering, IncludeControls is absent or a non-empty sequence,
\* and is absent exactly when the selection includes nothing; the root has as
\* many selections as before, and so has every activity and step whose
\* reference to its selections was not cleared.
C8_NeverPresentButEmpty ==
    /\ \A p \in VisitedPairs :
          IsNil(p[2].IncludeControls) \/ Len(Deref(p[2].IncludeControls)) > 0
    /\ (applies > 0 /\ panicAt = 0)
          => /\ Len(RootSelectionsOf(plan)) = Len(RootSelectionsOf(prev))
             /\ IsNil(plan.ReviewedControls.ControlSelections)
                   = IsNil(prev.ReviewedControls.ControlSelections)
    /\ \A i \in {n \in 1..Len(ActivitiesOf(plan)) : StepsVisited(n)} :
          LET pre == ActivitiesOf(prev)[i]
              post == ActivitiesOf(plan)[i]
          IN  /\ SelectionsOf(post.RelatedControls) # <<>>
                 => Len(SelectionsOf(post.RelatedControls)) = Len(SelectionsOf(pre.RelatedControls))
              /\ \A j \in 1..Len(StepsOf(post)) :
                    ~IsNil(StepsOf(post)[j].ReviewedControls)
                       => Len(SelectionsOf(StepsOf(post)[j].ReviewedControls))
                             = Len(SelectionsOf(StepsOf(pre)[j].ReviewedControls))

\* C8 witness: a root selection whose include list was present but empty, or
\* explicit under an empty scope, is still at the root, with no include list.
C8_Witness ==
    /\ applies = 1
    /\ \E p \in VisitedPairs :
          /\ ~IsNil(p[1].IncludeControls)
          /\ Len(Deref(p[1].IncludeControls)) = 0 \/ ScopeSet = {}
          /\ IsNil(p[2].IncludeControls)
          /\ p[2] \in Range(RootSelectionsOf(plan))

\* C9: called with zero component definitions (no variadic argument, or an
\* empty list spread), the constructor returns the error "no component
\* definitions found" and the zero AssessmentScope.
C9_EmptyInputRejected ==
    (~IsNil(built) /\ (IsNil(cds) \/ Len(Deref(cds)) = 0))
        => /\ Deref(built).err = Ptr("no component definitions found")
           /\ Deref(built).scope = ZeroAssessmentScope

\* C10: no two entries of the returned scope's IncludeControls have the same ControlID.
C10_NoDuplicateControlIDs ==
    ~IsNil(built) =>
        \A x, y \in 1..Len(Deref(built).scope.IncludeControls) :
            x # y => Deref(built).scope.IncludeControls[x].ControlID
                        # Deref(built).scope.IncludeControls[y].ControlID

\* C10 witness: two definitions naming the same two controls were given, and
\* the scope returned has those two controls.
C10_Witness ==
    /\ ~IsNil(built)
    /\ ~IsNil(cds)
    /\ Len(Deref(cds)) = 2
    /\ Deref(cds)[1] = Deref(cds)[2]
    /\ IsNil(Deref(built).err)
    /\ {e.ControlID : e \in Range(Deref(built).scope.IncludeControls)} = {"A", "B"}
    /\ Len(Deref(built).scope.IncludeControls) = 2

\* The control ids of the scope the constructor returned, in order.
BuiltIDs ==
    [k \in 1..Len(Deref(built).scope.IncludeControls) |->
        Deref(built).scope.IncludeControls[k].ControlID]

\* The control implementations handed to the constructor, over all the
\* definitions and components (absent collections holding none).
ImplementationsOf(defs) ==
    UNION {UNION {IF IsNil(c.ControlImplementations) THEN {}
                  ELSE Range(Deref(c.ControlImplementations)) :
                  c \in IF IsNil(cd.Components) THEN {} ELSE Range(Deref(cd.Components))} :
           cd \in IF IsNil(defs) THEN {} ELSE Range(Deref(defs))}

\* The non-empty control ids the implementation's requirements name.
NamedBy(ci) ==
    IF IsNil(ci.ImplementedRequirements) THEN {}
    ELSE {ir.ControlId : ir \in Range(Deref(ci.ImplementedRequirements))} \ {""}

\* C11: the IncludeControls the constructor returns is strictly ascending by
\* ControlID, whatever the order of the definitions, components,
\* implementations and requirements and the order All() yields the ids in.
C11_SortedByControlID ==
    ~IsNil(built) =>
        \A x, y \in 1..Len(BuiltIDs) : x < y => Rank(BuiltIDs[x]) < Rank(BuiltIDs[y])

\* C11 witness: a requirement naming B came before one naming A, and the
\* scope returned lists A before B.
C11_Witness ==
    /\ ~IsNil(built)
    /\ \E ci \in ImplementationsOf(cds) :
          /\ ~IsNil(ci.ImplementedRequirements)
          /\ [k \in 1..Len(Deref(ci.ImplementedRequirements)) |->
                 Deref(ci.ImplementedRequirements)[k].ControlId] = <<"B", "A">>
    /\ BuiltIDs = <<"A", "B">>

\* The implementation's property bag carries the framework tag, in the
\* trestle namespace, with the requested framework id as its value.
TaggedForFramework(ci) ==
    /\ ~IsNil(ci.Props)
    /\ \E p \in Range(Deref(ci.Props)) :
          p.Name = FrameworkProp /\ p.Ns = TrestleNameSpace /\ p.Value = frameworkId

\* The ids named by the implementations tagged for the requested framework.
NamedForFramework ==
    UNION {NamedBy(ci) : ci \in {c \in ImplementationsOf(cds) : TaggedForFramework(c)}}

\* C12: every control id of the scope returned is named by an implementation
\* whose property bag carries the namespaced framework tag with the requested
\* framework id; implementations tagged for another framework, without the
\* tag, or without a property bag contribute nothing.
C12_OnlyTaggedImplementations ==
    ~IsNil(built) => Range(BuiltIDs) \subseteq NamedForFramework

\* C12 witness: an implementation tagged for another framework named B, one
\* tagged for the requested framework named A, and the scope returned holds
\* only A.
C12_Witness ==
    /\ ~IsNil(built)
    /\ \E ci \in ImplementationsOf(cds) :
          /\ ci.Props = Ptr(<<FrameworkTag("other")>>)
          /\ "B" \in NamedBy(ci)
    /\ BuiltIDs = <<"A">>

\* C13: a call that succeeds returns one entry, with Rules ["*"], for each
\* non-empty control id named by an implementation tagged for the requested
\* framework, and no other entry; absent Components, ControlImplementations
\* and ImplementedRequirements count as empty.
C13_ExactlyTheNamedControls ==
    (~IsNil(built) /\ IsNil(Deref(built).err)) =>
        /\ Range(BuiltIDs) = NamedForFramework
        /\ Len(BuiltIDs) = Cardinality(NamedForFramework)
        /\ \A e \in Range(Deref(built).scope.IncludeControls) : e.Rules = <<"*">>

\* C13 witness: a definition without components came before one naming A
\* and B for the requested framework, and the scope returned holds A and B.
C13_Witness ==
    /\ ~IsNil(built)
    /\ IsNil(Deref(built).err)
    /\ Len(Deref(cds)) = 2
    /\ IsNil(Deref(cds)[1].Components)
    /\ NamedForFramework = {"A", "B"}
    /\ BuiltIDs = <<"A", "B">>

\* getControlTitle returns an error for the control id, with the profile
\* loader handed to the constructor.
ResolverFails(id) ==
    /\ ~IsNil(deps.profileLoader)
    /\ ~IsNil(getControlTitle(id, [Source |-> "profile.json"], Deref(deps.profileLoader)).err)

\* C14: a call given component definitions succeeds whatever getControlTitle
\* returns; an entry whose id getControlTitle was called with and returned an
\* error for has the id as its title, and when getControlTitle was not called
\* (no resolver at hand) every entry has its id as its title.
C14_TitleFallsBackToID ==
    (~IsNil(built) /\ ~IsNil(cds)) =>
        /\ IsNil(Deref(built).err)
        /\ \A e \in Range(Deref(built).scope.IncludeControls) :
              /\ (e.ControlID \in Range(titleCalls) /\ ResolverFails(e.ControlID))
                    => e.ControlTitle = e.ControlID
              /\ e.ControlID \notin Range(titleCalls) => e.ControlTitle = e.ControlID

\* C14 witness: getControlTitle was called for A and for B, found a title
\* for A and returned an error for B; the scope returned gives B as B's title.
C14_Witness ==
    /\ ~IsNil(built)
    /\ IsNil(Deref(built).err)
    /\ Range(titleCalls) = {"A", "B"}
    /\ ~IsNil(deps.profileLoader)
    /\ ~ResolverFails("A")
    /\ ResolverFails("B")
    /\ Deref(built).scope.IncludeControls
          = <<ControlEntry("A", "Title A"), ControlEntry("B", "B")>>

\* C18: within one call getControlTitle is called at most once with any one
\* control id.
C18_ResolverOncePerControl ==
    \A x, y \in 1..Len(titleCalls) : x # y => titleCalls[x] # titleCalls[y]

\* C18 witness: two definitions named control A, getControlTitle returned an
\* error for it, and it was called once.
C18_Witness ==
    /\ ~IsNil(built)
    /\ ~IsNil(cds)
    /\ Len(Deref(cds)) = 2
    /\ \A k \in 1..2 : "A" \in UNION {NamedBy(ci) : ci \in ImplementationsOf(Ptr(<<Deref(cds)[k]>>))}
    /\ ResolverFails("A")
    /\ titleCalls = <<"A">>

\* C15: no step changes the scope: its FrameworkID and its IncludeControls
\* (ids, titles, rules and order) are after ApplyScope what they were before.
C15_ScopeNotMutated == [][scope' = scope]_vars

\* C15 witness: ApplyScope changed a plan under a scope of two controls, B
\* before A.
C15_Witness ==
    /\ applies > 0
    /\ plan # prev
    /\ Len(scope.IncludeControls) = 2
    /\ scope.IncludeControls[1].ControlID = "B"
    /\ scope.IncludeControls[2].ControlID = "A"

\* What the loop over the activity's own RelatedControls alone makes of it.
ActivityLevelOutcomes(activity) ==
    IF IsNil(activity.RelatedControls)
          \/ IsNil(Deref(activity.RelatedControls).ControlSelections)
    THEN {activity}
    ELSE relatedControlsLoop(activity, Deref(Deref(activity.RelatedControls).ControlSelections),
                             1, ScopeSet)

\* C16: the skip annotation of a step changes only the step: after the call
\* every visited activity has the RelatedControls, control selections and
\* property bag that the filtering of its own RelatedControls left it.
C16_StepSkipLeavesActivity ==
    \A i \in {n \in 1..Len(ActivitiesOf(plan)) : ActivityVisited(n)} :
        \E a \in ActivityLevelOutcomes(ActivitiesOf(prev)[i]) :
            /\ CanonReviewedControls(ActivitiesOf(plan)[i].RelatedControls)
                  = CanonReviewedControls(a.RelatedControls)
            /\ ActivitiesOf(plan)[i].Props = a.Props

\* The property bag holds what it held, followed by skipped properties only.
OnlyTagged(pre, post) ==
    /\ Len(PropsOf(post)) >= Len(PropsOf(pre))
    /\ \A k \in 1..Len(PropsOf(post)) :
          PropsOf(post)[k] = IF k <= Len(PropsOf(pre)) THEN PropsOf(pre)[k] ELSE skipped

\* C17: a call removes no activity and no step: the plan has the activities
\* it had, each with the steps it had, in the same order; a node keeps its
\* properties, gains only skipped properties, and gains no reference to
\* control selections.
C17_NodesNeverDeleted ==
    /\ IsNil(plan.LocalDefinitions) = IsNil(prev.LocalDefinitions)
    /\ Len(ActivitiesOf(plan)) = Len(ActivitiesOf(prev))
    /\ \A i \in 1..Len(ActivitiesOf(plan)) :
          LET pre == ActivitiesOf(prev)[i]
              post == ActivitiesOf(plan)[i]
          IN  /\ IsNil(post.Steps) = IsNil(pre.Steps)
              /\ Len(StepsOf(post)) = Len(StepsOf(pre))
              /\ OnlyTagged(pre, post)
              /\ IsNil(pre.RelatedControls) => IsNil(post.RelatedControls)
              /\ \A j \in 1..Len(StepsOf(post)) :
                    /\ OnlyTagged(StepsOf(pre)[j], StepsOf(post)[j])
                    /\ IsNil(StepsOf(pre)[j].ReviewedControls)
                          => IsNil(StepsOf(post)[j].ReviewedControls)

\* C17 witness: of two activities the first was tagged as skipped and the
\* step of the second was tagged as skipped, and both are still in the plan.
C17_Witness ==
    /\ applies = 1
    /\ panicAt = 0
    /\ Len(ActivitiesOf(prev)) = 2
    /\ Len(ActivitiesOf(plan)) = 2
    /\ SkippedCount(ActivitiesOf(plan)[1]) = 1
    /\ IsNil(ActivitiesOf(plan)[1].RelatedControls)
    /\ Len(StepsOf(ActivitiesOf(plan)[2])) = 1
    /\ SkippedCount(StepsOf(ActivitiesOf(plan)[2])[1]) = 1
    /\ IsNil(StepsOf(ActivitiesOf(plan)[2])[1].ReviewedControls)

\* C20: one call appends at most one skipped property to an activity and at
\* most one to a step, however many of the node's selections filter to absent.
C20_AtMostOneSkippedPerNode ==
    \A i \in 1..Len(ActivitiesOf(plan)) :
        /\ SkippedCount(ActivitiesOf(plan)[i]) <= SkippedCount(ActivitiesOf(prev)[i]) + 1
        /\ \A j \in 1..Len(StepsOf(ActivitiesOf(plan)[i])) :
              SkippedCount(StepsOf(ActivitiesOf(plan)[i])[j])
                 <= SkippedCount(StepsOf(ActivitiesOf(prev)[i])[j]) + 1

\* C19: All() yields the members of the set once each in ascending order.
C19_AllEnumeratesSorted ==
    \A x, y \in 1..Len(allKeys) : x < y => Rank(allKeys[x]) < Rank(allKeys[y])

====
